---- MODULE Spec2Model ----
(***************************************************************************)
(* Databricks SQL middleware (Azure Functions, Python).                    *)
(*                                                                         *)
(*   databricks_client.py  DatabricksClient, _parse_statement_response,    *)
(*                         get_databricks_client                           *)
(*   function_app.py       execute_query, get_chunk, get_status,           *)
(*                         cancel_query, STATE_TO_HTTP                     *)
(*                                                                         *)
(* Encoding of Python values                                               *)
(*   dict            a function whose DOMAIN is the set of keys present    *)
(*   Optional[T]     None is <<>>, a present value v is <<v>>              *)
(*   str             a sequence of one-character strings wherever the code *)
(*                   looks inside the text (substring tests, int(), str()),*)
(*                   an atomic string where it is only passed through      *)
(*   raise / return  [raised |-> TRUE, msg |-> str(e)] /                   *)
(*                   [raised |-> FALSE, value |-> v]                       *)
(***************************************************************************)
EXTENDS Integers, Sequences, FiniteSets, Bags, TLC

VARIABLES _client, instances, config, inflight, last, data, parsed

vars == <<_client, instances, config, inflight, last, data, parsed>>

\* Largest number of inbound operations suspended on the remote service at once.
MaxInFlight == 3

-----------------------------------------------------------------------------
\* Python values

None == <<>>

Some(v) == <<v>>

EmptyDict == [k \in {} |-> k]

\* dict.get(k, default)
Get(d, k, default) == IF k \in DOMAIN d THEN d[k] ELSE default

Raise(msg) == [raised |-> TRUE, msg |-> msg]

Return(v) == [raised |-> FALSE, value |-> v]

\* sub in s
Contains(s, sub) == \E i \in 0..(Len(s) - Len(sub)) : SubSeq(s, i + 1, i + Len(sub)) = sub

UpperChars == <<"A","B","C","D","E","F","G","H","I","J","K","L","M","N","O","P","Q","R","S","T","U","V","W","X","Y","Z">>

LowerChars == <<"a","b","c","d","e","f","g","h","i","j","k","l","m","n","o","p","q","r","s","t","u","v","w","x","y","z">>

LowerChar(c) == IF \E i \in 1..Len(UpperChars) : UpperChars[i] = c THEN LowerChars[CHOOSE i \in 1..Len(UpperChars) : UpperChars[i] = c] ELSE c

\* s.lower()
Lower(s) == [i \in 1..Len(s) |-> LowerChar(s[i])]

DigitChars == <<"0","1","2","3","4","5","6","7","8","9">>

IsDigit(c) == \E i \in 1..Len(DigitChars) : DigitChars[i] = c

DigitValue(c) == (CHOOSE i \in 1..Len(DigitChars) : DigitChars[i] = c) - 1

RECURSIVE StrNat(_)
\* str(n) for n >= 0
StrNat(n) == IF n < 10 THEN <<DigitChars[n + 1]>> ELSE StrNat(n \div 10) \o <<DigitChars[(n % 10) + 1]>>

\* str(n) of an int
Str(n) == IF n < 0 THEN <<"-">> \o StrNat(0 - n) ELSE StrNat(n)

RECURSIVE DigitsValue(_)
DigitsValue(s) == IF Len(s) = 0 THEN 0 ELSE 10 * DigitsValue(SubSeq(s, 1, Len(s) - 1)) + DigitValue(s[Len(s)])

AllDigits(s) == Len(s) > 0 /\ \A i \in 1..Len(s) : IsDigit(s[i])

ValueErrorInt == <<"i","n","v","a","l","i","d"," ","l","i","t","e","r","a","l">>

TypeErrorInt == <<"i","n","t","(",")"," ","a","r","g","u","m","e","n","t">>

\* int(o) of a route parameter over the characters used here (digits, signs,
\* letters): None raises TypeError, text that is not an optionally signed run
\* of digits raises ValueError.
int(o) ==
    IF o = None THEN Raise(TypeErrorInt)
    ELSE LET s == o[1] IN
         IF AllDigits(s) THEN Return(DigitsValue(s))
         ELSE IF Len(s) > 1 /\ s[1] = "-" /\ AllDigits(Tail(s)) THEN Return(0 - DigitsValue(Tail(s)))
         ELSE IF Len(s) > 1 /\ s[1] = "+" /\ AllDigits(Tail(s)) THEN Return(DigitsValue(Tail(s)))
         ELSE Raise(ValueErrorInt)

-----------------------------------------------------------------------------
\* databricks_client.py

StatementState == {"PENDING", "RUNNING", "SUCCEEDED", "FAILED", "CANCELED", "CLOSED"}

UnknownError == <<"U","n","k","n","o","w","n"," ","e","r","r","o","r">>

NotAValidStatementState == <<"n","o","t"," ","a"," ","v","a","l","i","d"," ","S","t","a","t","e","m","e","n","t","S","t","a","t","e">>

StatementResult(statement_id, state, total_chunk_count, total_row_count, columns, rows, chunk_index, error_message) ==
    [statement_id |-> statement_id, state |-> state, total_chunk_count |-> total_chunk_count,
     total_row_count |-> total_row_count, columns |-> columns, data |-> rows,
     chunk_index |-> chunk_index, error_message |-> error_message]

\* The optional value of key k of dict d: d.get(k)
GetOpt(d, k) == IF k \in DOMAIN d THEN Some(d[k]) ELSE None


\* error_msg read whatever the state
ErrorMsgOf_any_state(status, state) ==
    IF state = "FAILED" \/ "error" \in DOMAIN status
    THEN Some(Get(Get(status, "error", EmptyDict), "message", UnknownError)) ELSE None

\* error_msg of _parse_statement_response
ErrorMsgOf(status, state) ==
    IF state = "FAILED" THEN Some(Get(Get(status, "error", EmptyDict), "message", UnknownError)) ELSE None

\* one entry of the columns comprehension
ColumnOf(c) == [name |-> c["name"], type |-> Get(c, "type_name", "string")]

ColumnsOf(manifest) ==
    IF "schema" \in DOMAIN manifest
    THEN LET cs == Get(manifest["schema"], "columns", <<>>) IN Some([i \in 1..Len(cs) |-> ColumnOf(cs[i])])
    ELSE None


\* an unknown state string coerced to PENDING
StatementStateOf_coercing(value) == IF value \in StatementState THEN Return(value) ELSE Return("PENDING")

\* StatementState(value): the member, or ValueError
StatementStateOf(value) == IF value \in StatementState THEN Return(value) ELSE Raise(NotAValidStatementState)

_parse_statement_response(d) ==
    LET status == Get(d, "status", EmptyDict)
        st == StatementStateOf(Get(status, "state", "PENDING"))
        manifest == Get(d, "manifest", EmptyDict)
        result == Get(d, "result", EmptyDict)
    IN  IF st.raised THEN st
        ELSE Return(StatementResult(Get(d, "statement_id", <<>>), st.value,
                                    GetOpt(manifest, "total_chunk_count"), GetOpt(manifest, "total_row_count"),
                                    ColumnsOf(manifest), GetOpt(result, "data_array"),
                                    GetOpt(result, "chunk_index"), ErrorMsgOf(status, st.value)))

-----------------------------------------------------------------------------
\* DatabricksClient: the outbound requests and what each operation makes of
\* the remote service's answer

StatementsPath == <<"/","a","p","i","/","2",".","0","/","s","q","l","/","s","t","a","t","e","m","e","n","t","s">>

ResultChunksPath == <<"/","r","e","s","u","l","t","/","c","h","u","n","k","s","/">>

CancelPath == <<"/","c","a","n","c","e","l">>

ForUrl == <<" ","f","o","r"," ","u","r","l"," ">>

NotFoundPhrase == <<"N","o","t"," ","F","o","u","n","d">>

InternalServerErrorPhrase == <<"I","n","t","e","r","n","a","l"," ","S","e","r","v","e","r"," ","E","r","r","o","r">>

ConnectTimeout == <<"t","i","m","e","d"," ","o","u","t">>

MissingDatabricksConfig == <<"M","i","s","s","i","n","g"," ","D","a","t","a","b","r","i","c","k","s"," ","c","o","n","f","i","g",".">>

\* An outbound request: the operation's kind (method and route), the
\* statement_id and chunk_index formatted into the path, the JSON payload.
Request(kind, statement_id, chunk_index, json) ==
    [kind |-> kind, statement_id |-> statement_id, chunk_index |-> chunk_index, json |-> json]

\* the "parameters" list of the submit payload: str(v) of every value
ParametersOf(parameters) == [i \in 1..Len(parameters) |-> [name |-> parameters[i].name, value |-> Str(parameters[i].value)]]


\* the submit payload asking the service to cancel on wait timeout
execute_statement_payload_cancel(statement, parameters) ==
    [warehouse_id |-> "warehouse", statement |-> statement, wait_timeout |-> "50s",
     on_wait_timeout |-> "CANCEL", format |-> "JSON_ARRAY"]
    @@ (IF parameters # None /\ Len(parameters[1]) > 0 THEN [parameters |-> ParametersOf(parameters[1])] ELSE EmptyDict)

\* payload of execute_statement; parameters is None, or Some(sequence of name/value items)
execute_statement_payload(statement, parameters) ==
    [warehouse_id |-> "warehouse", statement |-> statement, wait_timeout |-> "50s",
     on_wait_timeout |-> "CONTINUE", format |-> "JSON_ARRAY"]
    @@ (IF parameters # None /\ Len(parameters[1]) > 0 THEN [parameters |-> ParametersOf(parameters[1])] ELSE EmptyDict)

execute_statement_request(statement, parameters) ==
    Request("POST statements", <<>>, None, Some(execute_statement_payload(statement, parameters)))

get_statement_status_request(statement_id) == Request("GET statement", statement_id, None, None)

get_chunk_request(statement_id, chunk_index) == Request("GET chunk", statement_id, Some(chunk_index), None)

cancel_statement_request(statement_id) == Request("POST cancel", statement_id, None, None)

\* the path the request is sent to
Url(req) ==
    CASE req.kind = "POST statements" -> StatementsPath
      [] req.kind = "GET statement" -> StatementsPath \o <<"/">> \o req.statement_id
      [] req.kind = "GET chunk" -> StatementsPath \o <<"/">> \o req.statement_id \o ResultChunksPath \o Str(req.chunk_index[1])
      [] req.kind = "POST cancel" -> StatementsPath \o <<"/">> \o req.statement_id \o CancelPath

ReasonPhrase(status_code) == IF status_code = 404 THEN NotFoundPhrase ELSE InternalServerErrorPhrase

\* str(e) of the httpx.HTTPStatusError that response.raise_for_status() raises:
\* the status code, its reason phrase and the request's URL.
HTTPStatusErrorMessage(req, status_code) ==
    Str(status_code) \o <<" ">> \o ReasonPhrase(status_code) \o ForUrl \o Url(req)

\* The remote service's answer to one request: a transport failure (the
\* awaited call raises), or a response with a status code and a JSON body.
TransportError == [transport |-> TRUE, status_code |-> 0, json |-> EmptyDict]

Response(status_code, json) == [transport |-> FALSE, status_code |-> status_code, json |-> json]

\* await self._client.post/get(...), response.raise_for_status() and
\* response.json(): the awaited call raises on a transport failure,
\* raise_for_status on a 4xx or 5xx status.
raise_for_status(req, resp) ==
    IF resp.transport THEN Raise(ConnectTimeout)
    ELSE IF resp.status_code >= 400 THEN Raise(HTTPStatusErrorMessage(req, resp.status_code))
    ELSE Return(resp.json)

execute_statement(req, resp) ==
    LET d == raise_for_status(req, resp) IN IF d.raised THEN d ELSE _parse_statement_response(d.value)

get_statement_status(req, resp) ==
    LET d == raise_for_status(req, resp) IN IF d.raised THEN d ELSE _parse_statement_response(d.value)

get_chunk(req, resp) ==
    LET d == raise_for_status(req, resp)
    IN  IF d.raised THEN d
        ELSE Return(StatementResult(req.statement_id, "SUCCEEDED", None, None, None,
                                    GetOpt(d.value, "data_array"), GetOpt(d.value, "chunk_index"), None))


\* cancel_statement calling raise_for_status like the other operations
cancel_statement_raising(req, resp) ==
    LET d == raise_for_status(req, resp) IN IF d.raised THEN d ELSE Return(resp.status_code = 200)

cancel_statement(req, resp) == IF resp.transport THEN Raise(ConnectTimeout) ELSE Return(resp.status_code = 200)


\* a fresh client constructed by every call
get_databricks_client_per_call(cur, n, configured) ==
    IF configured THEN [raised |-> FALSE, client |-> n + 1, instances |-> n + 1]
    ELSE [raised |-> TRUE, client |-> 0, instances |-> n]

\* get_databricks_client() with the module's _client being cur, n instances
\* constructed so far and the environment's configuration complete or not:
\* the instance returned, the new _client and the new number of instances.
get_databricks_client(cur, n, configured) ==
    IF cur # 0 THEN [raised |-> FALSE, client |-> cur, instances |-> n]
    ELSE IF configured THEN [raised |-> FALSE, client |-> n + 1, instances |-> n + 1]
    ELSE [raised |-> TRUE, client |-> 0, instances |-> n]

-----------------------------------------------------------------------------
\* function_app.py

ACCEPTED == 202

OK == 200

INTERNAL_SERVER_ERROR == 500

GONE == 410

BAD_REQUEST == 400


\* STATE_TO_HTTP with the CLOSED entry forgotten
STATE_TO_HTTP_without_closed ==
    [PENDING |-> ACCEPTED, RUNNING |-> ACCEPTED, SUCCEEDED |-> OK,
     FAILED |-> INTERNAL_SERVER_ERROR, CANCELED |-> GONE]

STATE_TO_HTTP ==
    [PENDING |-> ACCEPTED, RUNNING |-> ACCEPTED, SUCCEEDED |-> OK,
     FAILED |-> INTERNAL_SERVER_ERROR, CANCELED |-> GONE, CLOSED |-> GONE]

InvalidJsonBody == <<"I","n","v","a","l","i","d"," ","J","S","O","N"," ","b","o","d","y">>

MissingStatementField == <<"M","i","s","s","i","n","g"," ","'","s","t","a","t","e","m","e","n","t","'"," ","f","i","e","l","d">>

MissingStatementId == <<"M","i","s","s","i","n","g"," ","s","t","a","t","e","m","e","n","t","I","d">>

InvalidChunkIndex == <<"I","n","v","a","l","i","d"," ","c","h","u","n","k","I","n","d","e","x">>

StatementNotFoundOrExpired == <<"S","t","a","t","e","m","e","n","t"," ","n","o","t"," ","f","o","u","n","d"," ","o","r"," ","c","a","c","h","e"," ","e","x","p","i","r","e","d","."," ","R","e","-","e","x","e","c","u","t","e"," ","q","u","e","r","y",".">>

FailedToCancel == <<"F","a","i","l","e","d"," ","t","o"," ","c","a","n","c","e","l">>

HasNoAttributeGet == <<"o","b","j","e","c","t"," ","h","a","s"," ","n","o"," ","a","t","t","r","i","b","u","t","e"," ","'","g","e","t","'">>

S404 == <<"4","0","4">>

SNotFound == <<"n","o","t"," ","f","o","u","n","d">>

json_response(d, status) == [status_code |-> status, body |-> d]

error_response(message, status) == json_response([error |-> message], status)

\* req.get_json() of an inbound body: ValueError when the body is not JSON,
\* otherwise the decoded value, which is a dict only for a JSON object.
get_json(body) == IF body.json = "invalid" THEN Raise(InvalidJsonBody) ELSE Return(body)

\* "if result.columns": None and the empty list are both false
ColumnsTruthy(result) == result.columns # None /\ Len(result.columns[1]) > 0

\* the metadata keys execute_query and get_status add only when known
MetadataOf(result) ==
    (IF result.total_chunk_count # None THEN [totalChunks |-> result.total_chunk_count[1]] ELSE EmptyDict)
    @@ (IF result.total_row_count # None THEN [totalRows |-> result.total_row_count[1]] ELSE EmptyDict)
    @@ (IF ColumnsTruthy(result) THEN [columns |-> result.columns[1]] ELSE EmptyDict)


\* the first chunk embedded for any state that carries data
HasFirstChunk_any_state(result) == result.data # None

\* the condition under which execute_query embeds the first chunk
HasFirstChunk(result) == result.data # None /\ result.state = "SUCCEEDED"

FirstChunkOf(result) ==
    IF HasFirstChunk(result)
    THEN [firstChunk |-> [chunkIndex |-> 0, rowCount |-> Len(result.data[1]), data |-> result.data[1]]]
    ELSE EmptyDict

\* execute_query once execute_statement has returned or raised
execute_query_response(result) ==
    IF result.raised THEN error_response(result.msg, INTERNAL_SERVER_ERROR)
    ELSE LET r == result.value
             http_status == Get(STATE_TO_HTTP, r.state, OK)
             response_data == [statementId |-> r.statement_id, state |-> r.state]
         IN  IF r.state = "FAILED"
             THEN json_response(response_data @@ [error |-> r.error_message], INTERNAL_SERVER_ERROR)
             ELSE json_response(response_data @@ MetadataOf(r) @@ FirstChunkOf(r), http_status)

\* get_status once get_statement_status has returned or raised
get_status_response(result) ==
    IF result.raised THEN error_response(result.msg, INTERNAL_SERVER_ERROR)
    ELSE LET r == result.value
             http_status == Get(STATE_TO_HTTP, r.state, OK)
             response_data == [statementId |-> r.statement_id, state |-> r.state]
         IN  json_response(response_data
                           @@ (IF r.state = "FAILED" THEN [error |-> r.error_message] ELSE EmptyDict)
                           @@ MetadataOf(r), http_status)

\* the test get_chunk applies to str(e)
LooksNotFound(error_msg) == Contains(error_msg, S404) \/ Contains(Lower(error_msg), SNotFound)

\* get_chunk once the client's get_chunk has returned or raised
get_chunk_response(result) ==
    IF result.raised
    THEN IF LooksNotFound(result.msg)
         THEN error_response(StatementNotFoundOrExpired, GONE)
         ELSE error_response(result.msg, INTERNAL_SERVER_ERROR)
    ELSE LET r == result.value
         IN  json_response([chunkIndex |-> r.chunk_index,
                            rowCount |-> IF r.data # None /\ Len(r.data[1]) > 0 THEN Len(r.data[1]) ELSE 0,
                            data |-> r.data], OK)

\* cancel_query once cancel_statement has returned or raised
cancel_query_response(result) ==
    IF result.raised THEN error_response(result.msg, INTERNAL_SERVER_ERROR)
    ELSE IF result.value THEN json_response([cancelled |-> TRUE], OK)
    ELSE error_response(FailedToCancel, INTERNAL_SERVER_ERROR)

-----------------------------------------------------------------------------
\* The handlers as steps. A handler runs without interruption up to its one
\* await (the outbound request) and again from the remote answer to its return.

NoLast ==
    [op |-> "none", args |-> EmptyDict, called |-> <<>>, sent |-> <<>>, remote |-> None,
     result |-> None, client |-> 0, outcome |-> Raise(<<>>)]

\* the handler returns (or raises) without having awaited anything
Answer(op, args, outcome) ==
    /\ last' = [op |-> op, args |-> args, called |-> <<>>, sent |-> <<>>, remote |-> None,
                result |-> None, client |-> 0, outcome |-> outcome]
    /\ UNCHANGED <<_client, instances, config, inflight, data, parsed>>

\* get_databricks_client() and then the client operation up to its await;
\* cap is the number of handlers the environment keeps suspended at once
CallClient(op, args, called, req, cap) ==
    LET c == get_databricks_client(_client, instances, config)
    IN  IF c.raised
        THEN Answer(op, args, Return(error_response(MissingDatabricksConfig, INTERNAL_SERVER_ERROR)))
        ELSE /\ BagCardinality(inflight) < cap
             /\ _client' = c.client
             /\ instances' = c.instances
             /\ inflight' = inflight (+) SetToBag({[op |-> op, args |-> args, called |-> called, client |-> c.client, sent |-> req]})
             /\ UNCHANGED <<config, last, data, parsed>>

\* the remote answer arrives and the suspended handler r runs to its return
Resume(r, resp, result, response) ==
    /\ inflight' = inflight (-) SetToBag({r})
    /\ last' = [op |-> r.op, args |-> r.args, called |-> <<r.called>>, sent |-> <<r.sent>>, remote |-> Some(resp),
                result |-> Some(result), client |-> r.client, outcome |-> Return(response)]
    /\ UNCHANGED <<_client, instances, config, data, parsed>>

execute_query(body, cap) ==
    LET args == [body |-> body]
        b == get_json(body)
    IN  IF b.raised THEN Answer("execute", args, Return(error_response(InvalidJsonBody, BAD_REQUEST)))
        ELSE IF b.value.json # "object" THEN Answer("execute", args, Raise(HasNoAttributeGet))
        ELSE LET statement == GetOpt(b.value.obj, "statement")
                 parameters == GetOpt(b.value.obj, "parameters")
             IN  IF statement = None \/ statement[1] = ""
                 THEN Answer("execute", args, Return(error_response(MissingStatementField, BAD_REQUEST)))
                 ELSE CallClient("execute", args, "execute_statement", execute_statement_request(statement[1], parameters), cap)

execute_query_resume(r, resp) ==
    /\ r.op = "execute"
    /\ LET result == execute_statement(r.sent, resp) IN Resume(r, resp, result, execute_query_response(result))

get_chunk_handler(statement_id, chunk_index_str, cap) ==
    LET args == [statementId |-> statement_id, chunkIndex |-> chunk_index_str]
        chunk_index == int(chunk_index_str)
    IN  IF statement_id = <<>> THEN Answer("chunk", args, Return(error_response(MissingStatementId, BAD_REQUEST)))
        ELSE IF chunk_index.raised THEN Answer("chunk", args, Return(error_response(InvalidChunkIndex, BAD_REQUEST)))
        ELSE CallClient("chunk", args, "get_chunk", get_chunk_request(statement_id, chunk_index.value), cap)

get_chunk_resume(r, resp) ==
    /\ r.op = "chunk"
    /\ LET result == get_chunk(r.sent, resp) IN Resume(r, resp, result, get_chunk_response(result))

get_status(statement_id, cap) ==
    LET args == [statementId |-> statement_id]
    IN  IF statement_id = <<>> THEN Answer("status", args, Return(error_response(MissingStatementId, BAD_REQUEST)))
        ELSE CallClient("status", args, "get_statement_status", get_statement_status_request(statement_id), cap)

get_status_resume(r, resp) ==
    /\ r.op = "status"
    /\ LET result == get_statement_status(r.sent, resp) IN Resume(r, resp, result, get_status_response(result))

cancel_query(statement_id, cap) ==
    LET args == [statementId |-> statement_id]
    IN  IF statement_id = <<>> THEN Answer("cancel", args, Return(error_response(MissingStatementId, BAD_REQUEST)))
        ELSE CallClient("cancel", args, "cancel_statement", cancel_statement_request(statement_id), cap)

cancel_query_resume(r, resp) ==
    /\ r.op = "cancel"
    /\ LET result == cancel_statement(r.sent, resp) IN Resume(r, resp, result, cancel_query_response(result))

-----------------------------------------------------------------------------
\* The environment: what callers send and what the remote service answers

Boom == <<"b","o","o","m">>

\* the dict {k: o[1]}, or the empty dict when the optional value o is absent
Key(k, o) == IF o = None THEN EmptyDict ELSE (k :> o[1])

Optional(S) == {None} \cup {Some(v) : v \in S}

Rows2 == << <<1>>, <<2>> >>

ColumnsTypedAndUntyped == << [name |-> "id", type_name |-> "LONG"], [name |-> "label"] >>

\* statement ids as the remote service issues them and callers echo them
StatementIds == { <<"a","b">>, <<"e","4","0","4">> }

StateStrings == StatementState \cup {"BOGUS"}

ErrorDicts == {EmptyDict, [message |-> Boom]}

StatusDicts(states, errors) == {Key("state", st) @@ Key("error", er) : st \in states, er \in errors}

FullManifest == [schema |-> [columns |-> ColumnsTypedAndUntyped], total_chunk_count |-> 2, total_row_count |-> 3]

ManifestDicts == {EmptyDict, [schema |-> EmptyDict], [total_chunk_count |-> 2, total_row_count |-> 3], FullManifest}

ResultDicts == {EmptyDict, [data_array |-> <<>>], [data_array |-> Rows2, chunk_index |-> 0]}

Bodies(statuses, manifests, results, ids) ==
    {Key("status", st) @@ Key("manifest", m) @@ Key("result", r) @@ Key("statement_id", id) :
        st \in statuses, m \in manifests, r \in results, id \in ids}

\* every shape of a Submit/Poll response body: each optional part present or missing
AllBodies ==
    Bodies(Optional(StatusDicts(Optional(StateStrings), Optional(ErrorDicts))),
           Optional(ManifestDicts), Optional(ResultDicts), Optional({<<"a","b">>}))

\* the bodies the handlers are run against one request at a time
RequestBodies ==
    Bodies({Some(sd) : sd \in StatusDicts(Optional(StateStrings), Optional(ErrorDicts))},
           {None, Some(FullManifest)},
           {None, Some([data_array |-> <<>>]), Some([data_array |-> Rows2, chunk_index |-> 0])},
           {Some(<<"a","b">>)})

\* the bodies the handlers are run against concurrently
ConcurrentBodies ==
    { [statement_id |-> <<"a","b">>, status |-> [state |-> "PENDING"]],
      [statement_id |-> <<"a","b">>, status |-> [state |-> "SUCCEEDED"], manifest |-> FullManifest,
       result |-> [data_array |-> Rows2, chunk_index |-> 0]],
      [statement_id |-> <<"a","b">>, status |-> [state |-> "FAILED", error |-> [message |-> Boom]]] }

ErrorResponses == {TransportError, Response(404, EmptyDict), Response(500, EmptyDict)}

StatementResponses(bodies) == ErrorResponses \cup {Response(200, b) : b \in bodies}

ChunkBodies == {EmptyDict, [chunk_index |-> 1], [chunk_index |-> 1, data_array |-> <<>>], [chunk_index |-> 1, data_array |-> Rows2]}

ChunkResponses == ErrorResponses \cup {Response(200, b) : b \in ChunkBodies}

CancelResponses == {TransportError} \cup {Response(c, EmptyDict) : c \in {200, 202, 404, 500}}

ParameterLists == {<<>>, << [name |-> "n", value |-> 7] >>}

ExecuteObjects ==
    {Key("statement", st) @@ Key("parameters", ps) : st \in Optional({"", "SELECT 1"}), ps \in Optional(ParameterLists)}

ExecuteBodies == {[json |-> "invalid"], [json |-> "array"]} \cup {[json |-> "object", obj |-> o] : o \in ExecuteObjects}

ConcurrentExecuteBodies == {[json |-> "invalid"], [json |-> "object", obj |-> EmptyDict], [json |-> "object", obj |-> [statement |-> "SELECT 1"]]}

RouteStatementIds == {<<>>} \cup StatementIds

ChunkIndexStrings ==
    {None, Some(<<>>), Some(<<"x">>), Some(<<"0">>), Some(<<"4","0","4">>), Some(<<"-","1">>), Some(<<"+","1">>)}

ConcurrentChunkIndexStrings == {Some(<<"x">>), Some(<<"0">>)}

-----------------------------------------------------------------------------
\* Specifications

Init ==
    /\ _client = 0
    /\ instances = 0
    /\ config \in BOOLEAN
    /\ inflight = EmptyBag
    /\ last = NoLast
    /\ data = EmptyDict
    /\ parsed = None

\* Concurrent handlers: up to MaxInFlight of them are suspended on the
\* remote service while others start and finish.
Next ==
    \/ \E body \in ConcurrentExecuteBodies : execute_query(body, MaxInFlight)
    \/ \E r \in BagToSet(inflight), resp \in StatementResponses(ConcurrentBodies) : execute_query_resume(r, resp)
    \/ \E id \in RouteStatementIds, ix \in ConcurrentChunkIndexStrings : get_chunk_handler(id, ix, MaxInFlight)
    \/ \E r \in BagToSet(inflight), resp \in ChunkResponses : get_chunk_resume(r, resp)
    \/ \E id \in RouteStatementIds : get_status(id, MaxInFlight)
    \/ \E r \in BagToSet(inflight), resp \in StatementResponses(ConcurrentBodies) : get_status_resume(r, resp)
    \/ \E id \in RouteStatementIds : cancel_query(id, MaxInFlight)
    \/ \E r \in BagToSet(inflight), resp \in CancelResponses : cancel_query_resume(r, resp)

Spec == Init /\ [][Next]_vars

\* One inbound operation at a time, from its request to its response, against
\* every request and every remote answer of the environment above. What a
\* handler answers is a function of its request, the remote answer and the
\* shared client alone, so the requests are served one after the other here.
NextRequest ==
    \/ \E body \in ExecuteBodies : execute_query(body, 1)
    \/ \E r \in BagToSet(inflight), resp \in StatementResponses(RequestBodies) : execute_query_resume(r, resp)
    \/ \E id \in RouteStatementIds, ix \in ChunkIndexStrings : get_chunk_handler(id, ix, 1)
    \/ \E r \in BagToSet(inflight), resp \in ChunkResponses : get_chunk_resume(r, resp)
    \/ \E id \in RouteStatementIds : get_status(id, 1)
    \/ \E r \in BagToSet(inflight), resp \in StatementResponses(RequestBodies) : get_status_resume(r, resp)
    \/ \E id \in RouteStatementIds : cancel_query(id, 1)
    \/ \E r \in BagToSet(inflight), resp \in CancelResponses : cancel_query_resume(r, resp)

SpecRequest == Init /\ [][NextRequest]_vars

\* Response normalization alone, applied to every shape of response body.
InitParse ==
    /\ _client = 0
    /\ instances = 0
    /\ config = TRUE
    /\ inflight = EmptyBag
    /\ last = NoLast
    /\ data \in AllBodies
    /\ parsed = None

Parse ==
    /\ parsed = None
    /\ parsed' = Some(_parse_statement_response(data))
    /\ UNCHANGED <<_client, instances, config, inflight, last, data>>

NextParse == Parse

SpecParse == InitParse /\ [][NextParse]_vars

-----------------------------------------------------------------------------
\* What the claims speak of, read off the last finished handler

Finished(op) == last.op = op

\* the remote service answered the handler's request with a response
Answered == last.remote # None /\ ~last.remote[1].transport

RemoteStatus == last.remote[1].status_code

RemoteBody == last.remote[1].json

\* the state string of the remote body, None when the body reports none
ReportedState == GetOpt(Get(RemoteBody, "status", EmptyDict), "state")

ReportedError == GetOpt(Get(RemoteBody, "status", EmptyDict), "error")

\* the handler returned this HTTP response
Responded == ~last.outcome.raised

HttpStatus == last.outcome.value.status_code

Payload == last.outcome.value.body

\* the client operation returned this StatementResult
Returned == last.result # None /\ ~last.result[1].raised

Result == last.result[1].value

\* the status the table of the design gives a state
TableStatus(s) ==
    CASE s \in {"PENDING", "RUNNING"} -> 202
      [] s = "SUCCEEDED" -> 200
      [] s = "FAILED" -> 500
      [] s \in {"CANCELED", "CLOSED"} -> 410

\* the message a Failed response carries: its own, or the placeholder
MessageOf(err) == IF err # None /\ "message" \in DOMAIN err[1] THEN err[1]["message"] ELSE UnknownError

\* C1: when the remote service reports one of the six states in a Submit or
\* Poll response, Execute and Status answer with the status the table gives
\* that state (202, 202, 200, 500, 410, 410), the outbound state field is the
\* reported state, a Failed answer carries the error message, and no state
\* takes the default status.
C1_StateToStatus ==
    ((Finished("execute") \/ Finished("status")) /\ Answered /\ RemoteStatus = 200
        /\ ReportedState # None /\ ReportedState[1] \in StatementState)
    => /\ Responded
       /\ HttpStatus = TableStatus(ReportedState[1])
       /\ Payload["state"] = ReportedState[1]
       /\ ReportedState[1] = "FAILED" => ("error" \in DOMAIN Payload /\ Payload["error"] = Some(MessageOf(ReportedError)))

C1_Witness ==
    /\ Finished("status") /\ Answered /\ RemoteStatus = 200
    /\ ReportedState = Some("CLOSED")
    /\ Responded /\ HttpStatus = 410 /\ Payload["state"] = "CLOSED"

ExecuteInvalid ==
    \/ last.args.body.json = "invalid"
    \/ last.args.body.json # "object"
    \/ "statement" \notin DOMAIN last.args.body.obj
    \/ last.args.body.obj["statement"] = ""

Unparseable(ix) == int(ix).raised

FailsValidation ==
    \/ Finished("execute") /\ ExecuteInvalid
    \/ Finished("chunk") /\ (last.args.statementId = <<>> \/ Unparseable(last.args.chunkIndex))
    \/ Finished("status") /\ last.args.statementId = <<>>
    \/ Finished("cancel") /\ last.args.statementId = <<>>

\* C3: a request that fails validation (Execute: body not JSON, statement
\* missing or empty; Chunk: statementId empty or chunkIndex not parseable;
\* Status, Cancel: statementId empty) is answered "bad request" (400), no
\* client operation is invoked and nothing is sent to the remote service.
C3_InvalidIsBadRequest ==
    FailsValidation => (Responded /\ HttpStatus = 400 /\ last.called = <<>> /\ last.sent = <<>>)

\* the client's get_chunk failed
ChunkFailed == Finished("chunk") /\ last.result # None /\ last.result[1].raised

\* C4: Chunk answers "gone" (410) with the re-execute message exactly when the
\* remote service answered the chunk fetch with 404; every other client
\* failure is answered 500 with the exception's message.
C4_GoneIffRemote404 ==
    ChunkFailed
    => IF Answered /\ RemoteStatus = 404
       THEN Responded /\ HttpStatus = 410 /\ Payload["error"] = StatementNotFoundOrExpired
       ELSE Responded /\ HttpStatus = 500 /\ Payload["error"] = last.result[1].msg

\* C5: whatever status the remote service answers a cancel request with,
\* cancel_statement returns a boolean and raises nothing, true exactly for
\* 200; the router answers true with {cancelled: true} and false with a
\* server error.
C5_CancelIsBoolean ==
    (Finished("cancel") /\ Answered)
    => /\ last.result[1] = Return(RemoteStatus = 200)
       /\ Responded
       /\ RemoteStatus = 200 => (HttpStatus = 200 /\ Payload = [cancelled |-> TRUE])
       /\ RemoteStatus # 200 => (HttpStatus = 500 /\ "cancelled" \notin DOMAIN Payload)

C5_Witness ==
    /\ Finished("cancel") /\ Answered /\ RemoteStatus = 404
    /\ last.result[1] = Return(FALSE)
    /\ Responded /\ HttpStatus = 500

\* the inline rows of a Submit response body, None when it carries none
InlineData == GetOpt(Get(RemoteBody, "result", EmptyDict), "data_array")

\* C6: the Execute response holds firstChunk exactly when the Submit result is
\* Succeeded and carries inline data; then chunkIndex is 0, rowCount is the
\* number of rows and data is that data. No other state yields a firstChunk,
\* whatever data the remote response carried.
C6_FirstChunk ==
    (Finished("execute") /\ Responded)
    => LET succeededWithData == Answered /\ RemoteStatus = 200 /\ ReportedState = Some("SUCCEEDED") /\ InlineData # None
       IN  /\ ("firstChunk" \in DOMAIN Payload) <=> succeededWithData
           /\ succeededWithData => Payload["firstChunk"] = [chunkIndex |-> 0, rowCount |-> Len(InlineData[1]), data |-> InlineData[1]]

C6_Witness ==
    /\ Finished("execute") /\ Responded /\ Answered /\ RemoteStatus = 200
    /\ ReportedState = Some("SUCCEEDED") /\ InlineData = Some(Rows2)
    /\ Payload["firstChunk"]["rowCount"] = 2

\* the outbound request is the one request of the inbound operation's kind,
\* for the statement the caller named
OwnRequest(op, args, req) ==
    CASE op = "execute" -> req.kind = "POST statements" /\ req.json[1]["on_wait_timeout"] = "CONTINUE"
      [] op = "status" -> req.kind = "GET statement" /\ req.statement_id = args.statementId
      [] op = "chunk" -> req.kind = "GET chunk" /\ req.statement_id = args.statementId
      [] op = "cancel" -> req.kind = "POST cancel" /\ req.statement_id = args.statementId

\* C7: every inbound operation issues at most one outbound request, of its
\* own kind (a submit carries on_wait_timeout = "CONTINUE"), and none after a
\* failed or non-terminal answer; a cancel request goes out only for an
\* inbound Cancel of that statement.
C7_OneRequestOfOwnKind ==
    /\ \A r \in BagToSet(inflight) : OwnRequest(r.op, r.args, r.sent)
    /\ last.op # "none" =>
        /\ Len(last.sent) <= 1
        /\ (Len(last.sent) = 1) <=> (last.remote # None)
        /\ \A i \in 1..Len(last.sent) : OwnRequest(last.op, last.args, last.sent[i])

C7_Witness ==
    /\ Finished("execute") /\ Answered /\ RemoteStatus = 200 /\ ReportedState = Some("PENDING")
    /\ Len(last.sent) = 1
    /\ \E r \in BagToSet(inflight) : r.op = "cancel"

\* the client instances in use by handlers, suspended or just finished
ClientsInUse == {r.client : r \in BagToSet(inflight)} \cup (IF last.client # 0 THEN {last.client} ELSE {})

\* C8: under every interleaving of handlers the client is constructed at
\* most once, every handler gets that one instance, and none is constructed
\* once one exists.
C8_SingleClient ==
    /\ instances <= 1
    /\ ClientsInUse \subseteq {_client}
    /\ (_client # 0) <=> (instances = 1)

C8_Witness ==
    /\ BagCardinality(inflight) >= 2
    /\ last.client # 0
    /\ instances = 1

\* C9: Chunk accepts a chunkIndex only if it parses as a non-negative
\* integer: any other value is answered "bad request" without a call of the
\* client, and a non-negative integer reaches the client unchanged.
C9_NonNegativeChunkIndex ==
    /\ \A r \in BagToSet(inflight) : r.op = "chunk" =>
        (r.sent.chunk_index[1] >= 0 /\ int(r.args.chunkIndex) = Return(r.sent.chunk_index[1]))
    /\ (Finished("chunk") /\ last.args.statementId # <<>>
          /\ (Unparseable(last.args.chunkIndex) \/ int(last.args.chunkIndex).value < 0))
        => (Responded /\ HttpStatus = 400 /\ last.called = <<>>)

\* the state string of the body being normalized, None when it has none
DataState == GetOpt(Get(data, "status", EmptyDict), "state")

DataManifest == Get(data, "manifest", EmptyDict)

DataResult == Get(data, "result", EmptyDict)

\* the columns a manifest yields: None without a schema, else name and type
\* of each column, "string" for an untyped one
ExpectedColumns ==
    IF "schema" \notin DOMAIN DataManifest THEN None
    ELSE IF "columns" \notin DOMAIN DataManifest["schema"] THEN Some(<<>>)
    ELSE LET cs == DataManifest["schema"]["columns"]
         IN  Some([i \in 1..Len(cs) |-> [name |-> cs[i]["name"],
                                         type |-> IF "type_name" \in DOMAIN cs[i] THEN cs[i]["type_name"] ELSE "string"]])

\* C10: normalization returns a StatementResult whatever optional parts of
\* the response are missing (no state gives Pending, an untyped column gives
\* type "string", counts, data and chunk_index are carried through or null),
\* and fails exactly when the state string is none of the six, never
\* returning a coerced state.
C10_ParseTotal ==
    parsed # None =>
        IF DataState # None /\ DataState[1] \notin StatementState
        THEN parsed[1].raised
        ELSE /\ ~parsed[1].raised
             /\ parsed[1].value.state = (IF DataState = None THEN "PENDING" ELSE DataState[1])
             /\ parsed[1].value.columns = ExpectedColumns
             /\ parsed[1].value.total_chunk_count = GetOpt(DataManifest, "total_chunk_count")
             /\ parsed[1].value.total_row_count = GetOpt(DataManifest, "total_row_count")
             /\ parsed[1].value.data = GetOpt(DataResult, "data_array")
             /\ parsed[1].value.chunk_index = GetOpt(DataResult, "chunk_index")
             /\ parsed[1].value.statement_id = Get(data, "statement_id", <<>>)

C10_Witness ==
    /\ parsed # None /\ ~parsed[1].raised
    /\ "status" \notin DOMAIN data /\ "result" \notin DOMAIN data /\ "statement_id" \notin DOMAIN data
    /\ DataManifest = FullManifest
    /\ parsed[1].value.state = "PENDING"
    /\ parsed[1].value.columns[1][2]["type"] = "string"

====
